---- MODULE Spec2Model ----
(***************************************************************************)
(* Model of bfu.py (Bluetooth Firmware Update): the frame builder          *)
(* FirmwareUpdater.prepare_packets, the per-frame retry loop               *)
(* FirmwareUpdater.send_packet, and the handshake / transfer / teardown    *)
(* sequence of FirmwareUpdater.upload_firmware, each block of which runs   *)
(* inside a Context whose __exit__ turns any exception into exit(1).       *)
(*                                                                         *)
(* Bytes objects are sequences of integers 0..255.  The transport is the   *)
(* RFCOMM socket; every send and every recv is recorded in `wire`.  A recv *)
(* either returns a bytes object or raises (socket timeout).               *)
(* The console is assumed to be a terminal (os.get_terminal_size works).   *)
(***************************************************************************)
EXTENDS Integers, Sequences, FiniteSets, TLC

\* ---------------------------------------------------------------- bounds
MaxLen == 3
MaxChunk == 3
MaxAttempts == 3
MaxSpin == 3
LiveLen == 2
LiveAttempts == 2

\* ------------------------------------------------------- program constants
UPD_BEG == <<170>>
UPD_ERR == <<238>>
UPD_END == <<255>>
PKG_ACK == <<255>>
PKG_ERR == <<238>>
PKG_PAN == <<170>>
PKG_SIZE == 2
CRC_SIZE == 4
DefaultAttempts == 3
DefaultPacksize == 512

\* b'firmware_update'
FirmwareUpdateId == <<102, 105, 114, 109, 119, 97, 114, 101, 95, 117, 112, 100, 97, 116, 101>>

\* ------------------------------------------------------------ input sets
ByteVals == {0, 255}
Files == UNION {[1..n -> ByteVals] : n \in 0..MaxLen}
\* A keyword argument is <<>> when not given and <<v>> when given as v.
\* check_size accepts 1..512; the sizes up to 6 leave no positive chunk size.
PackSizes == 1..(CRC_SIZE + PKG_SIZE + MaxChunk)
PacksizeKw == {<<>>} \cup {<<v>> : v \in PackSizes}
AttemptsKw == {<<>>} \cup {<<v>> : v \in 1..MaxAttempts}
\* values of args.attemtps (type=int, default 3, not validated)
CliAttempts == 0..MaxAttempts
\* main always passes packsize=args.packsize (default 512)
CliPacksizeKw == {<<v>> : v \in PackSizes \cup {DefaultPacksize}}

\* kwargs.pop(name, default)
KwPop(kw, default) == IF kw = <<>> THEN default ELSE kw[1]

\* ------------------------------------------------------------ zlib.crc32
\* 32-bit words are sequences of 32 bits, index 1 = least significant bit.
BitsOfByte(b) == [k \in 1..8 |-> (b \div (2 ^ (k - 1))) % 2]

WordOfBytes(b0, b1, b2, b3) ==
    BitsOfByte(b0) \o BitsOfByte(b1) \o BitsOfByte(b2) \o BitsOfByte(b3)

XorW(a, b) == [k \in 1..32 |-> (a[k] + b[k]) % 2]

ShrW(a) == [k \in 1..32 |-> IF k < 32 THEN a[k + 1] ELSE 0]

\* 0xEDB88320, the reflected CRC-32 polynomial
CrcPoly == WordOfBytes(32, 131, 184, 237)

AllOnes == [k \in 1..32 |-> 1]

RECURSIVE CrcShift(_, _)
CrcShift(c, n) ==
    IF n = 0 THEN c
    ELSE CrcShift(IF c[1] = 1 THEN XorW(ShrW(c), CrcPoly) ELSE ShrW(c), n - 1)

RECURSIVE CrcUpdate(_, _, _)
CrcUpdate(c, dat, k) ==
    IF k > Len(dat) THEN c
    ELSE CrcUpdate(CrcShift(XorW(c, WordOfBytes(dat[k], 0, 0, 0)), 8), dat, k + 1)

crc32(dat) == XorW(CrcUpdate(AllOnes, dat, 1), AllOnes)

ByteOfBits(w, lo) ==
    w[lo] + 2 * w[lo + 1] + 4 * w[lo + 2] + 8 * w[lo + 3]
    + 16 * w[lo + 4] + 32 * w[lo + 5] + 64 * w[lo + 6] + 128 * w[lo + 7]

\* int.to_bytes(4, byteorder='little') of a 32-bit word
WordToBytesLE(w) == <<ByteOfBits(w, 1), ByteOfBits(w, 9), ByteOfBits(w, 17), ByteOfBits(w, 25)>>

\* int.to_bytes(2, byteorder='little', signed=False)
ToBytes2LE(n) == <<n % 256, (n \div 256) % 256>>

\* -------------------------------------------------------- prepare_packets
Min(a, b) == IF a < b THEN a ELSE b

\* variant: the file position is not advanced, every read starts at offset 0
FileRead_NoSeek(f, pos, n) == SubSeq(f, 1, Min(n, Len(f)))

\* f.read(n) at file position pos
FileRead(f, pos, n) == SubSeq(f, pos + 1, Min(pos + n, Len(f)))

\* variant: max instead of min
DatSize_Max(packsize, size) == IF packsize > size THEN packsize ELSE size

DatSize(packsize, size) == Min(packsize, size)

\* variant: the checksum is taken over the length field and the data
BuildPacket_CrcOverHeader(dat_size, dat) ==
    ToBytes2LE(dat_size) \o WordToBytesLE(crc32(ToBytes2LE(dat_size) \o dat)) \o dat

BuildPacket(dat_size, dat) == ToBytes2LE(dat_size) \o WordToBytesLE(crc32(dat)) \o dat

\* variant: self.full_size += len(dat)
RECURSIVE PrepareLoop_PayloadOnly(_, _, _, _, _, _)
PrepareLoop_PayloadOnly(f, pos, size, packsize, result, full) ==
    IF size > 0
    THEN LET dat_size == DatSize(packsize, size)
             dat == FileRead(f, pos, dat_size)
             pkt == BuildPacket(dat_size, dat)
         IN PrepareLoop_PayloadOnly(f, pos + Len(dat), size - dat_size, packsize,
                                    Append(result, pkt), full + Len(dat))
    ELSE [packets |-> result, full_size |-> full]

RECURSIVE PrepareLoop(_, _, _, _, _, _)
PrepareLoop(f, pos, size, packsize, result, full) ==
    IF size > 0
    THEN LET dat_size == DatSize(packsize, size)
             dat == FileRead(f, pos, dat_size)
             pkt == BuildPacket(dat_size, dat)
         IN PrepareLoop(f, pos + Len(dat), size - dat_size, packsize,
                        Append(result, pkt), full + Len(pkt))
    ELSE [packets |-> result, full_size |-> full]

prepare_packets(f, packsize) == PrepareLoop(f, 0, Len(f), packsize, <<>>, 0)

\* How the while loop of prepare_packets ends for a file f and self.packsize c:
\*   c > 0 or empty file: it returns ("ok");
\*   c = 0: dat_size is 0, size never decreases, the loop does not end ("spin");
\*   c = -1: f.read(-1) reads the whole file, then
\*          dat_size.to_bytes(2, signed=False) raises OverflowError ("overflow");
\*   c < -1: f.read(dat_size) raises ValueError in the first iteration
\*          ("read_error").
PrepareOutcome(f, c) ==
    IF Len(f) = 0 \/ c > 0 THEN "ok"
    ELSE IF c = 0 THEN "spin"
    ELSE IF c = -1 THEN "overflow"
    ELSE "read_error"

\* ------------------------------------------------------------- transport
Tx(b) == [dir |-> "tx", data |-> b]
Rx(b) == [dir |-> "rx", data |-> b]
TimedOut == [dir |-> "timeout", data |-> <<>>]

RespBytes == {PKG_ACK, PKG_PAN, PKG_ERR, <<0>>}
RecvOutcomes == {Rx(b) : b \in RespBytes} \cup {TimedOut}

\* ---------------------------------------------------------------- state
VARIABLES
    file,         \* contents of the file at self.path
    kw_packsize,  \* packsize keyword given to FirmwareUpdater, <<>> if none
    kw_attempts,  \* attempts keyword given to FirmwareUpdater, <<>> if none
    args_attempts, \* <<args.attemtps>> when started through main, else <<>>
    packsize,     \* self.packsize
    attempts,     \* self.attempts
    sock,         \* "none" | "open" | "closed"
    packets,      \* self.packets
    full_size,    \* self.full_size
    full_time,    \* self.full_time (0 = clock did not advance, -1 = unset)
    pc,           \* position in __init__ / upload_firmware
    idx,          \* i of `for i, p in enumerate(self.packets)`
    attempt,      \* i of `for i in range(self.attempts)` in send_packet
    wire,         \* every send / recv on self.sock, in order
    progress,     \* calls of Context.progress: <<cur_v, max_v, Len(wire) at the call>>
    exit_code,    \* -1 while running, else the process exit status
    err_msg       \* message of the exception that reached Context.__exit__

vars == <<file, kw_packsize, kw_attempts, args_attempts, packsize, attempts, sock, packets,
          full_size, full_time, pc, idx, attempt, wire, progress, exit_code, err_msg>>

config == <<file, kw_packsize, kw_attempts, args_attempts>>

\* Exception messages are <<text, a, b>>: the format string and its two
\* integer arguments (0, 0 when it has none).
Msg(text) == <<text, 0, 0>>

\* state of a fresh process before FirmwareUpdater.__init__ runs
Fresh ==
    /\ packsize = 0
    /\ attempts = 0
    /\ sock = "none"
    /\ packets = <<>>
    /\ full_size = 0
    /\ full_time = -1
    /\ pc = "init"
    /\ idx = 0
    /\ attempt = 0
    /\ wire = <<>>
    /\ progress = <<>>
    /\ exit_code = -1
    /\ err_msg = Msg("")

\* the class used directly: FirmwareUpdater(addr, path, packsize=, attempts=)
Init ==
    /\ file \in Files
    /\ args_attempts = <<>>
    /\ kw_packsize \in PacksizeKw
    /\ kw_attempts \in AttemptsKw
    /\ Fresh

\* main after parse_args, with a target given:
\* FirmwareUpdater(target, args.path, verbose=args.verbose, packsize=args.packsize)
InitMain ==
    /\ file \in Files
    /\ args_attempts \in {<<a>> : a \in CliAttempts}
    /\ kw_packsize \in CliPacksizeKw
    /\ kw_attempts = <<>>
    /\ Fresh

\* Context.__exit__ with required = True and an exception: the message is
\* 'Unknown' when str(exc_val) is empty; then exit(1).
ExitMsg(exc_val) == IF exc_val[1] = "" THEN Msg("Unknown") ELSE exc_val

\* variant: the failure path calls exit(0)
ContextFail_ExitZero(exc_val) ==
    /\ pc' = "exited"
    /\ exit_code' = 0
    /\ err_msg' = ExitMsg(exc_val)

ContextFail(exc_val) ==
    /\ pc' = "exited"
    /\ exit_code' = 1
    /\ err_msg' = ExitMsg(exc_val)

\* FirmwareUpdater.__init__
Construct ==
    /\ pc = "init"
    /\ packsize' = KwPop(kw_packsize, DefaultPacksize) - CRC_SIZE - PKG_SIZE
    /\ attempts' = KwPop(kw_attempts, DefaultAttempts)
    /\ \E found \in BOOLEAN :
         IF found
         THEN /\ sock' = "open"
              /\ pc' = "constructed"
              /\ UNCHANGED <<exit_code, err_msg>>
         ELSE /\ ContextFail(Msg("Device not found"))
              /\ UNCHANGED sock
    /\ UNCHANGED <<config, packets, full_size, full_time, idx, attempt, wire, progress>>

\* upload_firmware: with Context('Prepairing packets')
PreparePackets ==
    /\ pc = "constructed"
    /\ \/ /\ PrepareOutcome(file, packsize) = "ok"
          /\ LET r == prepare_packets(file, packsize)
             IN /\ packets' = r.packets
                /\ full_size' = r.full_size
          /\ pc' = "prepared"
          /\ UNCHANGED <<exit_code, err_msg>>
       \/ \* first iteration: a frame with an empty payload is appended
          /\ PrepareOutcome(file, packsize) = "spin"
          /\ full_size' = Len(BuildPacket(0, <<>>))
          /\ pc' = "preparing"
          /\ UNCHANGED <<packets, exit_code, err_msg>>
       \/ /\ PrepareOutcome(file, packsize) = "overflow"
          /\ full_size' = 0
          /\ ContextFail(Msg("can't convert negative int to unsigned"))
          /\ UNCHANGED packets
       \/ /\ PrepareOutcome(file, packsize) = "read_error"
          /\ full_size' = 0
          /\ ContextFail(Msg("read length must be non-negative or -1"))
          /\ UNCHANGED packets
    /\ UNCHANGED <<config, packsize, attempts, sock, full_time, idx, attempt, wire,
                   progress>>

\* one more iteration of the while loop of prepare_packets when it does not
\* end: self.full_size grows by one header; observed for MaxSpin iterations.
PrepareSpin ==
    /\ pc = "preparing"
    /\ full_size < MaxSpin * Len(BuildPacket(0, <<>>))
    /\ full_size' = full_size + Len(BuildPacket(0, <<>>))
    /\ UNCHANGED <<config, packsize, attempts, sock, packets, full_time, pc, idx,
                   attempt, wire, progress, exit_code, err_msg>>

\* upload_firmware: with Context('Starting transaction'), up to the first recv
StartTransaction ==
    /\ pc = "prepared"
    /\ wire' = Append(wire, Tx(FirmwareUpdateId))
    /\ pc' = "liveness"
    /\ UNCHANGED <<config, packsize, attempts, sock, packets, full_size, full_time,
                   idx, attempt, progress, exit_code, err_msg>>

\* self.sock.recv(1) returns (value ignored); self.sock.send(UPD_BEG)
LivenessRecv ==
    /\ pc = "liveness"
    /\ \E r \in RecvOutcomes :
         IF r.dir = "timeout"
         THEN /\ wire' = Append(wire, r)
              /\ ContextFail(Msg("timed out"))
         ELSE /\ wire' = wire \o <<r, Tx(UPD_BEG)>>
              /\ pc' = "begin"
              /\ UNCHANGED <<exit_code, err_msg>>
    /\ UNCHANGED <<config, packsize, attempts, sock, packets, full_size, full_time,
                   idx, attempt, progress>>

\* variant: only an explicit error byte rejects the handshake
BeginAccepted_NotErr(ret) == ret # PKG_ERR

BeginAccepted(ret) == ret = PKG_ACK

\* if self.sock.recv(1) != PKG_ACK: raise Exception('Transfer did not begin');
\* on success the 'Sending packets' block is entered (start_time taken).
BeginRecv ==
    /\ pc = "begin"
    /\ \E r \in RecvOutcomes :
         /\ wire' = Append(wire, r)
         /\ IF r.dir = "timeout"
            THEN ContextFail(Msg("timed out"))
            ELSE IF BeginAccepted(r.data)
                 THEN /\ pc' = "sending"
                      /\ UNCHANGED <<exit_code, err_msg>>
                 ELSE ContextFail(Msg("Transfer did not begin"))
    /\ idx' = 0
    /\ UNCHANGED <<config, packsize, attempts, sock, packets, full_size, full_time,
                   attempt, progress>>

\* variant: the 0-based index is reported
ProgressArgs_ZeroBased(i, pkts) == <<i, Len(pkts)>>

\* c.progress(i + 1, len(self.packets), start_time): <<cur_v, max_v>>
ProgressArgs(i, pkts) == <<i + 1, Len(pkts)>>

\* variant: the loop stops one element early
HasNext_StopEarly(i, pkts) == i < Len(pkts) - 1

\* `for i, p in enumerate(self.packets)`: is there an element at index i
HasNext(i, pkts) == i < Len(pkts)

\* loop head of upload_firmware: c.progress(i + 1, len(self.packets), ...),
\* then send_packet(p) up to its first recv.
LoopPacket ==
    /\ pc = "sending"
    /\ HasNext(idx, packets)
    /\ progress' = Append(progress, ProgressArgs(idx, packets) \o <<Len(wire)>>)
    /\ attempt' = 0
    /\ wire' = Append(wire, Tx(packets[idx + 1]))
    /\ pc' = "frame"
    /\ UNCHANGED <<config, packsize, attempts, sock, packets, full_size, full_time,
                   idx, exit_code, err_msg>>

\* variant: range(self.attempts + 1)
SendPacketOutcome_OneMore(ret, att, n) ==
    IF ret = PKG_ACK THEN "ack"
    ELSE IF ret = PKG_PAN THEN "pan"
    ELSE IF att < n THEN "retry"
    ELSE "exhausted"

\* variant: no branch for PKG_PAN, it is retried like any other byte
SendPacketOutcome_PanRetried(ret, att, n) ==
    IF ret = PKG_ACK THEN "ack"
    ELSE IF att + 1 < n THEN "retry"
    ELSE "exhausted"

\* variant: `while True` instead of the bounded for loop
SendPacketOutcome_NoBound(ret, att, n) ==
    IF ret = PKG_ACK THEN "ack"
    ELSE IF ret = PKG_PAN THEN "pan"
    ELSE "retry"

\* variant: the function returns True after the loop
SendPacketOutcome_ExhaustedTrue(ret, att, n) ==
    IF ret = PKG_ACK THEN "ack"
    ELSE IF ret = PKG_PAN THEN "pan"
    ELSE IF att + 1 < n THEN "retry"
    ELSE "ack"

\* send_packet after ret = self.sock.recv(1), for loop variable i = att
SendPacketOutcome(ret, att, n) ==
    IF ret = PKG_ACK THEN "ack"
    ELSE IF ret = PKG_PAN THEN "pan"
    ELSE IF att + 1 < n THEN "retry"
    ELSE "exhausted"

\* 'packet %d/%d send error' % (i + 1, len(self.packets))
PacketErrMsg(i, n) == <<"packet %d/%d send error", i + 1, n>>

\* send_packet from its recv on, and the caller's `if not self.send_packet(p)`
FrameRecv ==
    /\ pc = "frame"
    /\ \E r \in RecvOutcomes :
         IF r.dir = "timeout"
         THEN /\ wire' = Append(wire, r)
              /\ ContextFail(Msg("timed out"))
              /\ UNCHANGED <<idx, attempt>>
         ELSE LET o == SendPacketOutcome(r.data, attempt, attempts)
              IN CASE o = "ack" ->
                        /\ wire' = Append(wire, r)
                        /\ idx' = idx + 1
                        /\ pc' = "sending"
                        /\ UNCHANGED <<attempt, exit_code, err_msg>>
                   [] o = "pan" ->
                        /\ wire' = Append(wire, r)
                        /\ ContextFail(PacketErrMsg(idx, Len(packets)))
                        /\ UNCHANGED <<idx, attempt>>
                   [] o = "retry" ->
                        /\ wire' = wire \o <<r, Tx(packets[idx + 1])>>
                        /\ attempt' = attempt + 1
                        /\ UNCHANGED <<idx, pc, exit_code, err_msg>>
                   [] o = "exhausted" ->
                        /\ wire' = wire \o <<r, Tx(UPD_ERR)>>
                        /\ ContextFail(PacketErrMsg(idx, Len(packets)))
                        /\ UNCHANGED <<idx, attempt>>
    /\ UNCHANGED <<config, packsize, attempts, sock, packets, full_size, full_time,
                   progress>>

\* time.time() - start_time: with at least one frame sent the clock has
\* advanced; with no frame the two clock reads may coincide.
ElapsedChoices == IF Len(packets) = 0 THEN {0, 1} ELSE {1}

\* end of the 'Sending packets' block (full_time, the three c.info lines with
\* full_size / full_time / 1024), then 'Ending transaction' up to its recv.
FinishSending ==
    /\ pc = "sending"
    /\ ~HasNext(idx, packets)
    /\ \E t \in ElapsedChoices :
         /\ full_time' = t
         /\ IF t = 0
            THEN /\ ContextFail(Msg("float division by zero"))
                 /\ UNCHANGED wire
            ELSE /\ wire' = Append(wire, Tx(UPD_END))
                 /\ pc' = "end"
                 /\ UNCHANGED <<exit_code, err_msg>>
    /\ UNCHANGED <<config, packsize, attempts, sock, packets, full_size, idx, attempt,
                   progress>>

\* variant: only an explicit error byte rejects the teardown
EndAccepted_NotErr(ret) == ret # PKG_ERR

EndAccepted(ret) == ret = PKG_ACK

\* if self.sock.recv(1) != PKG_ACK: raise Exception(); else main returns.
EndRecv ==
    /\ pc = "end"
    /\ \E r \in RecvOutcomes :
         /\ wire' = Append(wire, r)
         /\ IF r.dir = "timeout"
            THEN ContextFail(Msg("timed out"))
            ELSE IF EndAccepted(r.data)
                 THEN /\ pc' = "exited"
                      /\ exit_code' = 0
                      /\ UNCHANGED err_msg
                 ELSE ContextFail(Msg(""))
    /\ UNCHANGED <<config, packsize, attempts, sock, packets, full_size, full_time,
                   idx, attempt, progress>>

Next ==
    \/ Construct
    \/ PreparePackets
    \/ PrepareSpin
    \/ StartTransaction
    \/ LivenessRecv
    \/ BeginRecv
    \/ LoopPacket
    \/ FrameRecv
    \/ FinishSending
    \/ EndRecv

Spec == Init /\ [][Next]_vars

SpecMain == InitMain /\ [][Next]_vars

\* the steps of upload_firmware after the frame sequence is built
SessionNext ==
    \/ StartTransaction
    \/ LivenessRecv
    \/ BeginRecv
    \/ LoopPacket
    \/ FrameRecv
    \/ FinishSending
    \/ EndRecv

\* upload_firmware is one synchronous thread and every recv returns or times
\* out, so a step of the session that is possible is eventually taken.
\* The sessions checked for termination: sources of up to LiveLen bytes,
\* chunk sizes 0..LiveLen, 1..LiveAttempts attempts.
InitLive ==
    /\ file \in UNION {[1..n -> ByteVals] : n \in 0..LiveLen}
    /\ args_attempts = <<>>
    /\ kw_packsize \in {<<v>> : v \in (CRC_SIZE + PKG_SIZE)..(CRC_SIZE + PKG_SIZE + LiveLen)}
    /\ kw_attempts \in {<<v>> : v \in 1..LiveAttempts}
    /\ Fresh

SpecFair == InitLive /\ [][Next]_vars /\ WF_vars(SessionNext)

TypeOK ==
    /\ pc \in {"init", "constructed", "preparing", "prepared", "liveness", "begin", "sending",
               "frame", "end", "exited"}
    /\ exit_code \in {-1, 0, 1}
    /\ (pc = "exited") <=> (exit_code # -1)

\* ------------------------------------------------- observations on the wire
\* Events 1..4 are the handshake (identifier, liveness byte, BEGIN, response);
\* everything from event 5 on belongs to the transfer and teardown.
HandshakeLen == 4

IsDataTx(e) == e.dir = "tx" /\ Len(e.data) > CRC_SIZE + PKG_SIZE

IsRetryByte(e) == e.dir = "rx" /\ e.data \notin {PKG_ACK, PKG_PAN}

Max(S) == CHOOSE x \in S : \A y \in S : y <= x

BeginAcked == Len(wire) >= HandshakeLen /\ wire[HandshakeLen] = Rx(PKG_ACK)

\* positions of ACK responses to data frames
FrameAckPos == {j \in (HandshakeLen + 2)..Len(wire) :
                   wire[j] = Rx(PKG_ACK) /\ IsDataTx(wire[j - 1])}

AcksBefore(j) == Cardinality({k \in FrameAckPos : k < j})

EndPos == {j \in (HandshakeLen + 1)..Len(wire) : wire[j] = Tx(UPD_END)}

ErrPos == {j \in (HandshakeLen + 1)..Len(wire) : wire[j] = Tx(UPD_ERR)}

\* the session has passed the handshake and has not sent END
InTransfer == BeginAcked /\ EndPos = {}

\* the events of the frame currently (or last) in flight
SegStart == IF FrameAckPos = {} THEN HandshakeLen + 1 ELSE Max(FrameAckPos) + 1

SegData == {j \in SegStart..Len(wire) : IsDataTx(wire[j])}

SegResp == {j \in SegStart..Len(wire) : wire[j].dir # "tx"}

\* the frame in flight got `attempts` responses, none of them ACK, NACK_ABORT
\* or a timeout
Exhausted ==
    /\ InTransfer
    /\ SegResp # {}
    /\ \A j \in SegResp : IsRetryByte(wire[j])
    /\ Cardinality(SegResp) = attempts

Payload(p) == SubSeq(p, CRC_SIZE + PKG_SIZE + 1, Len(p))

RECURSIVE ConcatPayloads(_, _)
ConcatPayloads(pkts, k) ==
    IF k > Len(pkts) THEN <<>> ELSE Payload(pkts[k]) \o ConcatPayloads(pkts, k + 1)

RECURSIVE SumPayloadLens(_, _)
SumPayloadLens(pkts, k) ==
    IF k > Len(pkts) THEN 0 ELSE Len(Payload(pkts[k])) + SumPayloadLens(pkts, k + 1)

Ran == sock = "open" /\ pc = "exited"

\* ------------------------------------------------------------------ claims

\* C1: upload_firmware ends with exit code 0 exactly when the response to
\* BEGIN was ACK, every frame of the sequence was answered by ACK (no
\* NACK_ABORT received) and the response to END was ACK; every other finished
\* run has exit code 1.
C1_SuccessIffAllAcked ==
    Ran =>
      /\ exit_code \in {0, 1}
      /\ (exit_code = 0) <=>
           /\ BeginAcked
           /\ Cardinality(FrameAckPos) = Len(packets)
           /\ \A j \in (HandshakeLen + 1)..(Len(wire) - 1) : wire[j] # Rx(PKG_PAN)
           /\ EndPos # {}
           /\ wire[Len(wire)] = Rx(PKG_ACK)
           /\ wire[Len(wire) - 1] = Tx(UPD_END)

C1_Witness ==
    /\ Ran
    /\ exit_code = 0
    /\ Len(packets) >= 2
    /\ \E j \in (HandshakeLen + 1)..Len(wire) : wire[j] = Rx(PKG_ERR)

\* C2: a frame is never sent more than N = attempts times, every send of it
\* carries the same bytes, and a frame all of whose responses are bytes other
\* than ACK and NACK_ABORT has been sent exactly N times when the session ends,
\* which it does with exit code 1 and the frame's "send error".
C2_RetryExactlyN ==
    (sock = "open" /\ InTransfer) =>
      /\ Cardinality(SegData) <= attempts
      /\ \A j \in SegData : wire[j].data = packets[Cardinality(FrameAckPos) + 1]
      /\ (pc = "frame" /\ \A j \in SegResp : IsRetryByte(wire[j]))
            => Cardinality(SegResp) < attempts
      /\ (pc = "exited" /\ SegResp # {} /\ \A j \in SegResp : IsRetryByte(wire[j]))
            => /\ Cardinality(SegData) = attempts
               /\ Cardinality(SegResp) = attempts
               /\ exit_code = 1
               /\ err_msg = PacketErrMsg(Cardinality(FrameAckPos), Len(packets))

C2_Witness ==
    /\ pc = "exited"
    /\ Exhausted
    /\ attempts = 3
    /\ Cardinality(SegData) = 3
    /\ Cardinality(FrameAckPos) >= 1
    /\ \E j \in SegResp : wire[j] = Rx(<<0>>)

\* C3: a read timeout on the response to a data frame, on an attempt that is
\* not the last of the N, does not end the session.
C3_TimeoutIsRetried ==
    ~ /\ pc = "exited"
      /\ sock = "open"
      /\ InTransfer
      /\ SegData # {}
      /\ wire[Len(wire)] = TimedOut
      /\ Cardinality(SegData) < attempts

\* C4: a NACK_ABORT in response to a data frame is the last event on the
\* transport: the frame is not sent again, and the session ends with exit code
\* 1 reporting that frame's "send error".
C4_AbortStopsRetrying ==
    \A j \in (HandshakeLen + 2)..Len(wire) :
       (wire[j] = Rx(PKG_PAN) /\ IsDataTx(wire[j - 1])) =>
          /\ j = Len(wire)
          /\ pc = "exited"
          /\ exit_code = 1
          /\ err_msg = PacketErrMsg(Cardinality(FrameAckPos), Len(packets))

C4_Witness ==
    /\ Len(wire) > HandshakeLen + 2
    /\ wire[Len(wire)] = Rx(PKG_PAN)
    /\ InTransfer
    /\ Cardinality(SegData) = 2
    /\ attempts = 3
    /\ pc = "exited"

\* C5: whenever a frame fails, by NACK_ABORT or by exhausting its N attempts,
\* exactly one ERROR byte is sent, after the frame's last response; when no
\* frame fails no ERROR byte is sent.  send_packet returns from the PKG_PAN
\* branch (line 154) before the UPD_ERR send of line 155, so a run aborted by
\* NACK_ABORT violates it.
C5_ErrorByteOnEveryFailure ==
    /\ (/\ Ran
        /\ InTransfer
        /\ SegData # {}
        /\ \/ Exhausted
           \/ wire[Max(SegResp)] = Rx(PKG_PAN))
          => /\ Cardinality(ErrPos) = 1
             /\ wire[Len(wire)] = Tx(UPD_ERR)
    /\ (Ran /\ exit_code = 0) => ErrPos = {}

\* C6: every data frame on the transport is the frame whose index is the
\* number of frames acknowledged so far (in order, none skipped, the next one
\* only after an ACK), and after a frame has failed (NACK_ABORT, timeout, or
\* its N-th non-ACK response) no data frame and no END follows.
FrameFailedAt(j) ==
    /\ j > HandshakeLen + 1
    /\ IsDataTx(wire[j - 1])
    /\ \/ wire[j] = Rx(PKG_PAN)
       \/ wire[j] = TimedOut
       \/ /\ IsRetryByte(wire[j])
          /\ \E s \in (HandshakeLen + 1)..j :
               /\ j - s + 1 = 2 * attempts
               /\ \A k \in s..j : ((k - s) % 2 = 0) => IsDataTx(wire[k])
               /\ \A k \in s..j : ((k - s) % 2 = 1) => IsRetryByte(wire[k])

C6_InOrderNoSkip ==
    sock = "open" =>
      /\ \A j \in (HandshakeLen + 1)..Len(wire) :
           IsDataTx(wire[j]) =>
             /\ AcksBefore(j) < Len(packets)
             /\ wire[j].data = packets[AcksBefore(j) + 1]
             /\ \/ j = HandshakeLen + 1
                \/ wire[j - 1] = Rx(PKG_ACK)
                \/ IsRetryByte(wire[j - 1])
      /\ \A j \in (HandshakeLen + 1)..Len(wire) :
           FrameFailedAt(j) =>
             /\ \A k \in (j + 1)..Len(wire) :
                  ~IsDataTx(wire[k]) /\ wire[k] # Tx(UPD_END)
             /\ pc = "exited"
             /\ exit_code = 1

C6_Witness ==
    /\ pc = "exited"
    /\ Cardinality(FrameAckPos) = 2
    /\ Len(packets) = 3
    /\ packets[1] # packets[2]
    /\ FrameFailedAt(Len(wire) - 1)
    /\ wire[Len(wire)] = Tx(UPD_ERR)

\* C7: when the response to BEGIN is a byte other than ACK, or a timeout, the
\* session ends with exit code 1 and nothing is sent after BEGIN.
C7_HandshakeRejected ==
    (Len(wire) >= HandshakeLen /\ wire[HandshakeLen] # Rx(PKG_ACK)) =>
       /\ Len(wire) = HandshakeLen
       /\ pc = "exited"
       /\ exit_code = 1

C7_Witness ==
    /\ Len(wire) = HandshakeLen
    /\ wire[HandshakeLen - 1] = Tx(UPD_BEG)
    /\ wire[HandshakeLen] = TimedOut
    /\ Len(packets) >= 1
    /\ pc = "exited"

\* C8: END is sent at most once, and only after every frame of the sequence
\* has been sent and answered by ACK, in order.
C8_EndOnceAfterAllAcked ==
    /\ Cardinality(EndPos) <= 1
    /\ \A e \in EndPos :
         /\ AcksBefore(e) = Len(packets)
         /\ \A k \in 1..Len(packets) :
              \E m \in (HandshakeLen + 1)..(e - 2) :
                 /\ wire[m] = Tx(packets[k])
                 /\ wire[m + 1] = Rx(PKG_ACK)
                 /\ AcksBefore(m) = k - 1

C8_Witness ==
    /\ EndPos # {}
    /\ Len(packets) = 3
    /\ Len(wire) > Max(EndPos)

\* C9: when every frame was acknowledged and the response to END is a byte
\* other than ACK, the session ends with exit code 1 and END's response is the
\* last event on the transport.
C9_TeardownRejected ==
    \A e \in EndPos :
       (Len(wire) > e /\ wire[e + 1].dir = "rx" /\ wire[e + 1] # Rx(PKG_ACK)) =>
          /\ Len(wire) = e + 1
          /\ pc = "exited"
          /\ exit_code = 1

C9_Witness ==
    /\ EndPos # {}
    /\ Len(packets) >= 2
    /\ Cardinality(FrameAckPos) = Len(packets)
    /\ wire[Len(wire)] = Rx(PKG_ERR)
    /\ wire[Len(wire) - 1] = Tx(UPD_END)
    /\ exit_code = 1

\* C10: for a non-empty source, the payloads of the frames built by
\* prepare_packets, concatenated in order, are the source bytes, and the
\* payload lengths sum to the source length.
C10_PayloadRoundTrip ==
    (sock = "open" /\ pc \notin {"init", "constructed"} /\ Len(file) > 0 /\ packsize > 0) =>
       /\ ConcatPayloads(packets, 1) = file
       /\ SumPayloadLens(packets, 1) = Len(file)

C10_Witness ==
    /\ pc = "prepared"
    /\ Len(file) = 3
    /\ packsize = 2
    /\ Len(packets) = 2
    /\ file[1] # file[3]

\* the frame sequence has been built by prepare_packets with a positive chunk
\* size from a non-empty source
Built ==
    /\ sock = "open"
    /\ pc \notin {"init", "constructed", "preparing"}
    /\ Len(file) > 0
    /\ packsize > 0

\* C11: for a non-empty source of length L and chunk size c > 0 there are
\* exactly ceil(L / c) frames, every payload length is in 1..c and every frame
\* but the last has payload length c.
C11_FrameCountAndLengths ==
    Built =>
      /\ Len(packets) = (Len(file) + packsize - 1) \div packsize
      /\ \A k \in 1..Len(packets) :
           /\ Len(Payload(packets[k])) >= 1
           /\ Len(Payload(packets[k])) <= packsize
           /\ (k < Len(packets)) => Len(Payload(packets[k])) = packsize

C11_Witness ==
    /\ Built
    /\ Len(file) = 3
    /\ packsize = 2
    /\ Len(packets) = 2
    /\ Len(Payload(packets[2])) = 1

\* zlib.crc32(dat).to_bytes(4, 'little') for the payloads of up to 4 bytes
\* over {0, 255}, as computed by the zlib library
ZlibCrcLE(dat) ==
    CASE dat = <<>> -> <<0, 0, 0, 0>>
    [] dat = <<0>> -> <<141, 239, 2, 210>>
    [] dat = <<255>> -> <<0, 0, 0, 255>>
    [] dat = <<0, 0>> -> <<255, 18, 217, 65>>
    [] dat = <<0, 255>> -> <<114, 253, 219, 108>>
    [] dat = <<255, 0>> -> <<141, 239, 253, 210>>
    [] dat = <<255, 255>> -> <<0, 0, 255, 255>>
    [] dat = <<0, 0, 0>> -> <<18, 217, 65, 255>>
    [] dat = <<0, 0, 255>> -> <<159, 54, 67, 210>>
    [] dat = <<0, 255, 0>> -> <<96, 36, 101, 108>>
    [] dat = <<0, 255, 255>> -> <<237, 203, 103, 65>>
    [] dat = <<255, 0, 0>> -> <<255, 237, 217, 65>>
    [] dat = <<255, 0, 255>> -> <<114, 2, 219, 108>>
    [] dat = <<255, 255, 0>> -> <<141, 16, 253, 210>>
    [] dat = <<255, 255, 255>> -> <<0, 255, 255, 255>>
    [] dat = <<0, 0, 0, 0>> -> <<28, 223, 68, 33>>
    [] dat = <<0, 0, 0, 255>> -> <<145, 48, 70, 12>>
    [] dat = <<0, 0, 255, 0>> -> <<110, 34, 96, 178>>
    [] dat = <<0, 0, 255, 255>> -> <<227, 205, 98, 159>>
    [] dat = <<0, 255, 0, 0>> -> <<241, 235, 220, 159>>
    [] dat = <<0, 255, 0, 255>> -> <<124, 4, 222, 178>>
    [] dat = <<0, 255, 255, 0>> -> <<131, 22, 248, 12>>
    [] dat = <<0, 255, 255, 255>> -> <<14, 249, 250, 33>>
    [] dat = <<255, 0, 0, 0>> -> <<237, 217, 65, 255>>
    [] dat = <<255, 0, 0, 255>> -> <<96, 54, 67, 210>>
    [] dat = <<255, 0, 255, 0>> -> <<159, 36, 101, 108>>
    [] dat = <<255, 0, 255, 255>> -> <<18, 203, 103, 65>>
    [] dat = <<255, 255, 0, 0>> -> <<0, 237, 217, 65>>
    [] dat = <<255, 255, 0, 255>> -> <<141, 2, 219, 108>>
    [] dat = <<255, 255, 255, 0>> -> <<114, 16, 253, 210>>
    [] dat = <<255, 255, 255, 255>> -> <<255, 255, 255, 255>>
    [] OTHER -> <<>>

\* C12: every frame is 2 bytes little-endian payload length, 4 bytes
\* little-endian CRC-32 of that frame's payload, then the payload.
C12_FrameLayout ==
    Built =>
      \A k \in 1..Len(packets) :
         LET p == packets[k]
             dat == Payload(p)
         IN /\ Len(p) > CRC_SIZE + PKG_SIZE
            /\ p[1] + 256 * p[2] = Len(dat)
            /\ dat = SubSeq(file, (k - 1) * packsize + 1, (k - 1) * packsize + Len(dat))
            /\ SubSeq(p, PKG_SIZE + 1, PKG_SIZE + CRC_SIZE) = WordToBytesLE(crc32(dat))
            /\ (Len(dat) <= 4) =>
                  SubSeq(p, PKG_SIZE + 1, PKG_SIZE + CRC_SIZE) = ZlibCrcLE(dat)

C12_Witness ==
    /\ Built
    /\ Len(packets) = 2
    /\ packets[1] = <<2, 0, 114, 253, 219, 108, 0, 255>>
    /\ packets[2] = <<1, 0, 0, 0, 0, 255, 255>>

\* C13: with an empty source neither BEGIN nor a data frame nor END is sent
\* and the run does not end with exit code 0.
C13_EmptySourceRejected ==
    (Len(file) = 0) =>
       /\ \A j \in 2..Len(wire) :
            /\ wire[j] # Tx(UPD_BEG)
            /\ wire[j] # Tx(UPD_END)
            /\ ~IsDataTx(wire[j])
       /\ exit_code # 0

\* C14: a packet size of 6 (chunk size 0) is rejected before any I/O: no
\* connection is opened, frame building does not run, nothing is sent.
C14_ZeroChunkRejected ==
    (kw_packsize = <<CRC_SIZE + PKG_SIZE>>) =>
       /\ sock = "none"
       /\ wire = <<>>
       /\ pc \notin {"preparing", "prepared"}

\* number of frames whose sending was started
FramesStarted ==
    Cardinality({j \in (HandshakeLen + 1)..Len(wire) :
                    IsDataTx(wire[j]) /\ wire[j - 1] = Rx(PKG_ACK)})

\* C15: there is exactly one progress update per frame whose sending was
\* started, the completed counts are 1, 2, 3, ..., none exceeds the number of
\* frames, and no update follows a failed frame.
C15_ProgressOncePerFrame ==
    /\ Len(progress) = FramesStarted
    /\ \A k \in 1..Len(progress) :
         /\ progress[k][1] = k
         /\ progress[k][2] = Len(packets)
         /\ progress[k][1] <= progress[k][2]
    /\ (pc = "exited" /\ exit_code = 1 /\ InTransfer)
          => Len(progress) = Cardinality(FrameAckPos) + (IF SegData = {} THEN 0 ELSE 1)

C15_Witness ==
    /\ pc = "exited"
    /\ exit_code = 1
    /\ Len(packets) = 3
    /\ Len(progress) = 2
    /\ wire[Len(wire)] = Rx(PKG_PAN)

\* C16 as stated: after a run that ends with exit code 0, full_size is the
\* byte count of the source.
C16_TotalBytesIsSourceLength ==
    (Ran /\ exit_code = 0) => full_size = Len(file)

RECURSIVE SumFrameLens(_, _)
SumFrameLens(pkts, k) ==
    IF k > Len(pkts) THEN 0 ELSE Len(pkts[k]) + SumFrameLens(pkts, k + 1)

\* C16 amended: after a run that ends with exit code 0, full_size is the sum
\* of the frame lengths: the source byte count plus 6 header bytes per frame.
C16_TotalBytesCountsHeaders ==
    (Ran /\ exit_code = 0) =>
       /\ full_size = SumFrameLens(packets, 1)
       /\ full_size = Len(file) + (CRC_SIZE + PKG_SIZE) * Len(packets)
       /\ SumPayloadLens(packets, 1) = Len(file)

C16_Witness ==
    /\ Ran
    /\ exit_code = 0
    /\ Len(file) = 3
    /\ Len(packets) = 2
    /\ full_size = 15

\* C17: the progress update with completed count k is emitted only after the
\* outcome of the k-th frame is known, and not before that frame's first send.
C17_ProgressAfterOutcome ==
    \A k \in 1..Len(progress) :
       /\ \E j \in (HandshakeLen + 1)..progress[k][3] : IsDataTx(wire[j])
       /\ \/ Cardinality({j \in FrameAckPos : j <= progress[k][3]}) >= progress[k][1]
          \/ \E j \in (HandshakeLen + 1)..progress[k][3] : FrameFailedAt(j)

\* C18: no terminal state is reached with the transport still open.
C18_TransportClosedOnExit ==
    (pc = "exited") => sock # "open"

\* C19: the value a of the retry-attempts option is the bound used by
\* send_packet: a frame that is never acknowledged is sent exactly a times,
\* and a value a <= 0 is rejected before any I/O.
C19_CliAttemptsIsBound ==
    (args_attempts # <<>>) =>
       LET a == args_attempts[1]
       IN /\ (a <= 0) => (sock = "none" /\ wire = <<>>)
          /\ (/\ a > 0
              /\ pc = "exited"
              /\ InTransfer
              /\ SegResp # {}
              /\ \A j \in SegResp : IsRetryByte(wire[j]))
                => Cardinality(SegData) = a

\* number of data-frame sends on the transport
DataSends ==
    Cardinality({j \in (HandshakeLen + 1)..Len(wire) : IsDataTx(wire[j])})

\* C20: once the frame sequence is built, upload_firmware reaches its end
\* (exit code 0 or 1), and at no time have more than N * (number of frames)
\* data frames been sent.
C20_TerminatesWithinBudget ==
    /\ (pc = "prepared") ~> (pc = "exited" /\ exit_code \in {0, 1})
    /\ [](sock = "open" => DataSends <= attempts * Len(packets))

C20_Witness ==
    /\ pc = "exited"
    /\ Len(packets) = 2
    /\ attempts = 2
    /\ DataSends = 4
    /\ exit_code = 1

\* reference values of zlib.crc32
CrcKnown ==
    /\ WordToBytesLE(crc32(<<>>)) = <<0, 0, 0, 0>>
    /\ WordToBytesLE(crc32(<<0>>)) = <<141, 239, 2, 210>>
    /\ WordToBytesLE(crc32(<<255>>)) = <<0, 0, 0, 255>>
    /\ WordToBytesLE(crc32(<<0, 255>>)) = <<114, 253, 219, 108>>
    /\ WordToBytesLE(crc32(<<255, 255, 0>>)) = <<141, 16, 253, 210>>
====
